---- MODULE Spec2Model ----
(***************************************************************************)
(* Stock ledger and orchestration of the confectionery back office:        *)
(* StockItem balances, the StockMovement log, the admin movement form,     *)
(* StockOrchestrator (auto_add_to_stock, force_entry), the post_save       *)
(* receiver on SupplyBatch and the status evaluation of a StockItem.       *)
(*                                                                         *)
(* Quantities are DecimalField values; they are modelled as integers (one  *)
(* unit = one quantum of the column).  A nullable column holds the empty   *)
(* set when it is NULL and a singleton {v} when it holds v.                *)
(*                                                                         *)
(* The orchestrator states no transaction scope (no atomic block), so a    *)
(* row it writes is committed when it is written: a call that raises       *)
(* keeps the rows it wrote before the exception.                           *)
(*                                                                         *)
(* A SupplyBatch row carries is_active and stock_entry_created as the      *)
(* orchestrator and the batch admin read and write them; a new batch has   *)
(* stock_entry_created false.                                              *)
(*                                                                         *)
(* Specifications: Spec (the orchestrator and what feeds it), SpecLedger   *)
(* (balances, validated movements, recalculate), SpecApi (the writers of   *)
(* the movement log), SpecForm (the admin movement form on every filling), *)
(* SpecRace (two request handlers of the add view), SpecStatus             *)
(* (stock_status of an instance), SpecUsage (consumption estimates of an   *)
(* instance), SpecFault (batch creation with writes that can fail),        *)
(* SpecBulk (the bulk action of the batch admin over two batches),         *)
(* SpecEdit (movements recorded, edited and recalculated), SpecConcurrent  *)
(* (a batch creation and a force_entry call in two handlers).              *)
(***************************************************************************)
EXTENDS Integers, Sequences, FiniteSets, TLC

\* ---------------------------------------------------------------- bounds
MaxQty == 1
\* rows of the movement log: under Spec and SpecApi, under SpecLedger
MaxEntries == 2
MaxMovements == 3
MaxDate == 9

\* The rows the model follows: one SupplyBatch and two StockLocation rows, in
\* primary-key order (an unordered queryset's first() orders by pk).
Batches == {1}
Locs == {1, 2}
\* SupplyBatch.quantity is a DecimalField without validators: zero can be
\* stored as well as a positive amount.
BatchQtys == 0..MaxQty
\* unique_together (supply_batch, location) bounds the StockItem rows to one
\* per pair; one more id keeps a second row for a pair representable.
ItemIds == {1, 2, 3}

None == {}
Some(v) == {v}
The(s) == CHOOSE v \in s : TRUE

\* ------------------------------------------------- enumerations of the code
INBOUND == "entrada"
OUTBOUND == "saida"
TRANSFER == "transferencia"
ADJUSTMENT == "ajuste"
PRODUCTION_INPUT == "insumo_producao"
PRODUCTION_OUTPUT == "producao_final"
StockMovementType ==
    {INBOUND, OUTBOUND, TRANSFER, ADJUSTMENT, PRODUCTION_INPUT, PRODUCTION_OUTPUT}

INVENTORY_ERROR == "erro_inventario"
DAMAGE == "avaria"
ADMIN_EDIT == "ajuste_admin"

AUTO_NOTES == "Entrada automatica via StockOrchestrator"
FORCE_NOTES == "Ajuste manual de quantidade via admin"
USER_NOTES == "justificativa"
NO_NOTES == ""

VARIABLES
    batches,             \* SupplyBatch rows: id -> [is_active, stock_entry_created, quantity]
    locations,           \* StockLocation rows: id -> is_active
    supply_item_active,  \* SupplyItem.is_active of the batches' supply item
    stock_items,         \* StockItem rows: id -> [supply_batch, location, quantity]
    movements,           \* StockMovement rows, in insertion order
    last,                \* the last request: what was called and what it answered
    evaluation,          \* the last status evaluation of a StockItem instance
    handlers,            \* request handlers: handler -> its request and its position
    usage                \* the last consumption estimate of a StockItem instance

vars == <<batches, locations, supply_item_active, stock_items, movements, last,
          evaluation, handlers, usage>>

\* ------------------------------------------------------------ small helpers
Min(S) == CHOOSE x \in S : \A y \in S : x <= y
\* variant: the signed difference, abs() left out
signed_difference(x) == x

Abs(x) == IF x < 0 THEN 0 - x ELSE x

RECURSIVE SumQty(_)
SumQty(s) == IF s = <<>> THEN 0 ELSE Head(s).quantity + SumQty(Tail(s))

\* The database as the handlers see it, with the answer of the call.
Db(b, s, m) == [batches |-> b, stock_items |-> s, movements |-> m,
                ret |-> "none", triggers |-> 0]

\* What `last` records of a request: the operation, the batch or item it was
\* about, its answer, how often the post_save receiver called
\* auto_add_to_stock while it ran, and the error of a rejected form.
Call(op, batch, item, ret, triggers) ==
    [op |-> op, batch |-> batch, item |-> item, ret |-> ret, triggers |-> triggers,
     error |-> ""]

Submitted(op, data, ret, error) ==
    [op |-> op, batch |-> None, item |-> Some(data.stock_item), ret |-> ret,
     triggers |-> 0, error |-> error]

\* ------------------------------------------------------- StockItem (models.py)
\* StockItem.objects.create: a new row under a fresh primary key.
NewItemId(items) == Min(ItemIds \ DOMAIN items)

StockItem_create(items, batch, location, quantity) ==
    LET id == NewItemId(items)
    IN [i \in DOMAIN items \cup {id} |->
          IF i = id
          THEN [supply_batch |-> batch, location |-> location, quantity |-> quantity]
          ELSE items[i]]

\* self.movements: the rows whose stock_item is this item.
MovementsOf(log, i) == SelectSeq(log, LAMBDA m : m.stock_item = i)

total_in(log, i) ==
    SumQty(SelectSeq(MovementsOf(log, i),
                     LAMBDA m : m.movement_type \in {INBOUND, PRODUCTION_OUTPUT}))

total_out(log, i) ==
    SumQty(SelectSeq(MovementsOf(log, i),
                     LAMBDA m : m.movement_type \in {OUTBOUND, PRODUCTION_INPUT}))

\* variant: the balance of the log is added to the stored quantity
recalculate_stock_incremental(items, log, i) ==
    [items EXCEPT ![i].quantity = @ + total_in(log, i) - total_out(log, i)]

\* self.quantity = self.total_in - self.total_out; self.save()
recalculate_stock(items, log, i) ==
    [items EXCEPT ![i].quantity = total_in(log, i) - total_out(log, i)]

\* average_daily_usage and estimated_days_remaining are evaluated on a
\* StockItem instance [quantity, movements]; a movement row carries its age in
\* days.  The window of average_daily_usage is 30 days.
WindowDays == 30

\* recent_outs: movement_type in (OUTBOUND, PRODUCTION_INPUT), date >= now - 30d
recent_outs(item) ==
    SelectSeq(item.movements,
              LAMBDA m : /\ m.movement_type \in {OUTBOUND, PRODUCTION_INPUT}
                         /\ m.age <= WindowDays)

\* total_used = sum(m.quantity for m in recent_outs)
total_used(item) == SumQty(recent_outs(item))

\* total_used / 30 if total_used else 0, as a fraction: the numerator of the
\* average over the denominator WindowDays.
average_daily_usage(item) ==
    IF total_used(item) # 0 THEN total_used(item) ELSE 0

\* int(x / y) for y > 0: the quotient truncated toward zero.
int_div(x, y) == IF x >= 0 THEN x \div y ELSE 0 - ((0 - x) \div y)

\* int(self.quantity / avg) if avg > 0 else None
estimated_days_remaining(item) ==
    LET avg == average_daily_usage(item)
    IN IF avg > 0
       THEN Some(int_div(item.quantity * WindowDays, avg))
       ELSE None

\* The properties below are evaluated on a StockItem instance with the rows it
\* reaches: [quantity, supply_batch (NULL or the batch with its
\* expiration_date), supply_item_threshold (the StockThreshold row of the
\* item's supply item, or NULL)]; `today` is timezone.now().date().
ExpiringDays == 7
FallbackMin == 5

\* variant: an item without a batch is given day 0 as its expiration date
expiration_date_defaulting(item) ==
    IF item.supply_batch # None
    THEN Some(The(item.supply_batch).expiration_date)
    ELSE Some(0)

\* self.supply_batch.expiration_date if self.supply_batch else None
expiration_date(item) ==
    IF item.supply_batch # None
    THEN Some(The(item.supply_batch).expiration_date)
    ELSE None

days_to_expire(item, today) ==
    IF expiration_date(item) = None
    THEN None
    ELSE Some(The(expiration_date(item)) - today)

\* variant: a batch counts as expired from its expiration day on
is_expired_from_the_day(item, today) ==
    /\ expiration_date(item) # None
    /\ The(expiration_date(item)) <= today

is_expired(item, today) ==
    /\ expiration_date(item) # None
    /\ The(expiration_date(item)) < today

is_expiring_soon(item, today) ==
    /\ expiration_date(item) # None
    /\ 0 <= The(days_to_expire(item, today))
    /\ The(days_to_expire(item, today)) <= ExpiringDays

\* getattr(self, "threshold", None): "threshold" is the reverse accessor of
\* StockThreshold.supply_item, an attribute of SupplyItem; a StockItem has no
\* attribute of that name, so the default is what the lookup returns.
threshold_attribute(item) == None

is_low_stock(item) ==
    LET threshold == threshold_attribute(item)
    IN IF threshold # None /\ The(threshold).alert_enabled
       THEN item.quantity < The(threshold).min_quantity
       ELSE item.quantity < FallbackMin

stock_status(item, today) ==
    IF is_expired(item, today) THEN "VENCIDO"
    ELSE IF is_expiring_soon(item, today) THEN "EXPIRANDO"
    ELSE IF item.quantity <= 0 THEN "EM FALTA"
    ELSE IF is_low_stock(item) THEN "EM ALERTA"
    ELSE "OK"

\* --------------------------------------------------- StockMovement (models.py)
is_inbound(m) == m.movement_type \in {INBOUND, PRODUCTION_OUTPUT}

is_outbound(m) == m.movement_type \in {OUTBOUND, PRODUCTION_INPUT, TRANSFER}

\* id = UUIDField(primary_key=True, default=uuid.uuid4): an instance holds a
\* primary key from the moment it is constructed, before its first save.
NewInstancePk == Some("uuid4")

\* StockMovement.clean: "" when the instance is valid, else the field in error.
StockMovement_clean(items, m) ==
    IF is_outbound(m) /\ m.quantity > items[m.stock_item].quantity
    THEN "quantity"
    ELSE ""

\* StockMovement.save: the row as it is stored.  pk is the instance's primary
\* key when save is entered.
StockMovement_save(items, m, pk) ==
    LET before == IF pk = None
                  THEN Some(items[m.stock_item].quantity)
                  ELSE m.before_quantity
    IN [m EXCEPT !.before_quantity = before,
                 !.after_quantity = Some(items[m.stock_item].quantity)]

\* variant: a save that applies the movement's quantity to the balance
StockMovement_save_balance_applying(items, m) ==
    [items EXCEPT ![m.stock_item].quantity =
        IF is_inbound(m) THEN @ + m.quantity
        ELSE IF is_outbound(m) THEN @ - m.quantity
        ELSE @]

\* StockMovement.save: the StockItem rows after it.  save writes the movement
\* row and its after_quantity; it makes no write to a StockItem.
StockMovement_save_balance(items, m) == items

\* StockMovement(...): the fields a caller gives, the snapshot columns NULL.
Movement(item, type, quantity, reason, source, destination, notes) ==
    [stock_item |-> item, movement_type |-> type, quantity |-> quantity,
     adjustment_reason |-> reason, source_location |-> source,
     destination_location |-> destination, notes |-> notes,
     before_quantity |-> None, after_quantity |-> None]

\* StockMovement.objects.create(**fields): construct, then save.
StockMovement_create(items, log, m) ==
    Append(log, StockMovement_save(items, m, NewInstancePk))

\* ------------------------------------------------------- signals.py
\* create_stock_from_batch: whether the post_save receiver calls
\* auto_add_to_stock for a save with this `created` flag.
\* variant: a receiver that does not look at `created`
create_stock_from_batch_on_every_save(created) == TRUE

create_stock_from_batch(created) == created

\* ------------------------------------------------- StockOrchestrator
\* variant: the active location of the highest primary key
last_active_location ==
    LET act == {l \in Locs : locations[l]}
    IN IF act = {} THEN None ELSE Some(CHOOSE x \in act : \A y \in act : y <= x)

first_active_location ==
    LET act == {l \in Locs : locations[l]}
    IN IF act = {} THEN None ELSE Some(Min(act))

\* variant: a lookup that finds no StockItem
ItemsAt_finds_none(items, b, l) == {}

\* StockItem.objects.filter(supply_batch=batch, location=location)
ItemsAt(items, b, l) ==
    {i \in DOMAIN items : items[i].supply_batch = b /\ items[i].location = l}

\* variant: the flag is set on the instance but the save is left out
mark_entry_created_unsaved(db, b) == db

\* batch.stock_entry_created = True; batch.save(update_fields=[...]).  The save
\* sends post_save with created=False.
mark_entry_created(db, b) ==
    [db EXCEPT !.batches[b].stock_entry_created = TRUE,
               !.triggers = @ + (IF create_stock_from_batch(FALSE) THEN 1 ELSE 0)]

\* variants of the early returns: without the stock_entry_created test,
\* without the test for an existing StockItem, and without both
auto_add_skips_without_flag(db, b) ==
    LET batch == db.batches[b]
        default_location == first_active_location
    IN \/ ~batch.is_active
       \/ ~supply_item_active
       \/ batch.quantity <= 0
       \/ default_location = None
       \/ ItemsAt(db.stock_items, b, The(default_location)) # {}

auto_add_skips_without_exists(db, b) ==
    LET batch == db.batches[b]
    IN \/ ~batch.is_active
       \/ batch.stock_entry_created
       \/ ~supply_item_active
       \/ batch.quantity <= 0
       \/ first_active_location = None

auto_add_skips_without_guard(db, b) ==
    LET batch == db.batches[b]
    IN \/ ~batch.is_active
       \/ ~supply_item_active
       \/ batch.quantity <= 0
       \/ first_active_location = None

\* The early returns of auto_add_to_stock: the conditions under which it
\* answers False before it writes anything.
auto_add_skips(db, b) ==
    LET batch == db.batches[b]
        default_location == first_active_location
    IN \/ ~batch.is_active
       \/ batch.stock_entry_created
       \/ ~supply_item_active
       \/ batch.quantity <= 0
       \/ default_location = None
       \/ ItemsAt(db.stock_items, b, The(default_location)) # {}

auto_add_to_stock(db, b) ==
    LET batch == db.batches[b]
    IN IF auto_add_skips(db, b)
       THEN [db EXCEPT !.ret = "false"]
       ELSE
         LET loc == The(first_active_location)
             id == NewItemId(db.stock_items)
             items1 == StockItem_create(db.stock_items, b, loc, batch.quantity)
             log1 == StockMovement_create(items1, db.movements,
                        Movement(id, INBOUND, batch.quantity, None, None,
                                 Some(loc), AUTO_NOTES))
         IN [mark_entry_created([db EXCEPT !.stock_items = items1,
                                           !.movements = log1], b)
               EXCEPT !.ret = "true"]

\* variant: the new quantity is assigned to the instance and not saved
StockItem_set_quantity_unsaved(items, id, quantity) == items

\* stock_item.quantity = new_quantity; stock_item.save(update_fields=["quantity"])
StockItem_set_quantity(items, id, quantity) ==
    [items EXCEPT ![id].quantity = quantity]

\* auto_add_to_stock when one of its three writes raises (a database error):
\* `point` is the write that fails, "item" for StockItem.objects.create,
\* "movement" for StockMovement.objects.create, "flag" for batch.save.  The
\* method has no try block and no atomic block: the writes before the failing
\* one stay, the exception leaves the method.
FaultPoints == {"item", "movement", "flag"}

auto_add_to_stock_raising(db, b, point) ==
    LET batch == db.batches[b]
        loc == The(first_active_location)
        id == NewItemId(db.stock_items)
        items1 == StockItem_create(db.stock_items, b, loc, batch.quantity)
        log1 == StockMovement_create(items1, db.movements,
                   Movement(id, INBOUND, batch.quantity, None, None,
                            Some(loc), AUTO_NOTES))
    IN IF point = "item" THEN [db EXCEPT !.ret = "raised"]
       ELSE IF point = "movement"
       THEN [db EXCEPT !.stock_items = items1, !.ret = "raised"]
       ELSE [db EXCEPT !.stock_items = items1, !.movements = log1,
                       !.ret = "raised"]

force_entry(db, b, location_arg) ==
    LET batch == db.batches[b]
        location == IF location_arg # None THEN location_arg
                    ELSE first_active_location
    IN IF ~batch.is_active THEN [db EXCEPT !.ret = "false"]
       ELSE IF location = None THEN [db EXCEPT !.ret = "false"]
       ELSE
         LET loc == The(location)
             found == ItemsAt(db.stock_items, b, loc)
         IN IF found # {}
            THEN
              LET id == Min(found)
                  old_quantity == db.stock_items[id].quantity
                  new_quantity == batch.quantity
                  diff == new_quantity - old_quantity
                  items1 == StockItem_set_quantity(db.stock_items, id, new_quantity)
                  log1 == StockMovement_create(items1, db.movements,
                             Movement(id, ADJUSTMENT, Abs(diff),
                                      Some(INVENTORY_ERROR),
                                      IF diff < 0 THEN Some(loc) ELSE None,
                                      IF diff > 0 THEN Some(loc) ELSE None,
                                      FORCE_NOTES))
                  db1 == IF old_quantity # new_quantity
                         THEN [db EXCEPT !.stock_items = items1, !.movements = log1]
                         ELSE db
              IN [mark_entry_created(db1, b) EXCEPT !.ret = "true"]
            ELSE
              \* The row is created; building the movement then reads `diff`,
              \* a local this branch never assigned: UnboundLocalError.
              [db EXCEPT !.stock_items =
                             StockItem_create(db.stock_items, b, loc, batch.quantity),
                         !.ret = "raised"]

\* ------------------------------------------- SupplyBatchAdmin (admin.py)
\* force_stock_entry: `for batch in queryset: if force_entry(batch): count += 1`.
\* The loop has no try block: a call that raises ends the action there, with
\* the batches after it not visited and no message sent.  `done` holds what
\* each call so far answered.
RECURSIVE force_stock_entry(_, _, _)
force_stock_entry(db, queryset, done) ==
    IF queryset = <<>>
    THEN [db |-> db, returns |-> done, ret |-> "reported",
          count |-> Cardinality({b \in DOMAIN done : done[b] = "true"})]
    ELSE
      LET batch == Head(queryset)
          r == force_entry(db, batch, None)
          done1 == [b \in DOMAIN done \cup {batch} |->
                      IF b = batch THEN r.ret ELSE done[b]]
      IN IF r.ret = "raised"
         THEN [db |-> r, returns |-> done1, ret |-> "raised", count |-> 0]
         ELSE force_stock_entry(r, Tail(queryset), done1)

\* ------------------------------------------- StockMovementAdminForm (forms.py)
campos_criticos ==
    {"quantity", "movement_type", "stock_item", "source_location",
     "destination_location"}

\* form.changed_data restricted to the critical fields.  An add form compares
\* the submitted data with an empty initial: stock_item, movement_type and
\* quantity are required, so they always count as changed.
critical_changed(data, instance) ==
    IF instance = None
    THEN TRUE
    ELSE \E f \in campos_criticos : data[f] # The(instance)[f]

\* variant: the form without its test of a positive quantity
StockMovementAdminForm_clean_any_quantity(items, data, instance) ==
    LET available == items[data.stock_item].quantity
        instance_pk == IF instance = None THEN NewInstancePk ELSE Some("row")
    IN IF /\ data.movement_type \in {OUTBOUND, PRODUCTION_INPUT, TRANSFER}
          /\ data.quantity # 0
          /\ data.quantity > available
       THEN "quantity"
       ELSE IF data.movement_type = ADJUSTMENT /\ data.adjustment_reason = None
       THEN "adjustment_reason"
       ELSE IF data.movement_type \in {OUTBOUND, TRANSFER} /\ data.source_location = None
       THEN "source_location"
       ELSE IF data.movement_type \in {INBOUND, TRANSFER} /\ data.destination_location = None
       THEN "destination_location"
       ELSE IF /\ instance_pk # None
               /\ critical_changed(data, instance)
               /\ data.notes = NO_NOTES
       THEN "notes"
       ELSE ""

\* StockMovementAdminForm.clean: "" when the form is valid, else the field the
\* ValidationError is attached to.  `instance` is NULL for an add form and the
\* persisted row for a change form; instance_pk is self.instance.pk.
StockMovementAdminForm_clean(items, data, instance) ==
    LET available == items[data.stock_item].quantity
        instance_pk == IF instance = None THEN NewInstancePk ELSE Some("row")
    IN IF /\ data.movement_type \in {OUTBOUND, PRODUCTION_INPUT, TRANSFER}
          /\ data.quantity # 0
          /\ data.quantity > available
       THEN "quantity"
       ELSE IF data.quantity <= 0 THEN "quantity"
       ELSE IF data.movement_type = ADJUSTMENT /\ data.adjustment_reason = None
       THEN "adjustment_reason"
       ELSE IF data.movement_type \in {OUTBOUND, TRANSFER} /\ data.source_location = None
       THEN "source_location"
       ELSE IF data.movement_type \in {INBOUND, TRANSFER} /\ data.destination_location = None
       THEN "destination_location"
       ELSE IF /\ instance_pk # None
               /\ critical_changed(data, instance)
               /\ data.notes = NO_NOTES
       THEN "notes"
       ELSE ""

\* ModelForm validation: the form's clean, then the instance's clean
\* (_post_clean calls full_clean on the instance built from the data).
form_errors(items, data, instance) ==
    LET e == StockMovementAdminForm_clean(items, data, instance)
    IN IF e # "" THEN e ELSE StockMovement_clean(items, data)

\* The data of a form filled for a movement of type t on item i: with
\* `filled`, every field the type asks for and a justification; without,
\* only the three required fields.
FormData(items, i, t, q, filled) ==
    LET loc == Some(items[i].location)
    IN Movement(i, t, q,
                IF filled /\ t = ADJUSTMENT THEN Some(DAMAGE) ELSE None,
                IF filled /\ t \in {OUTBOUND, TRANSFER} THEN loc ELSE None,
                IF filled /\ t \in {INBOUND, TRANSFER} THEN loc ELSE None,
                IF filled THEN USER_NOTES ELSE NO_NOTES)

FormQtys == 0..MaxQty

\* Quantities a caller of the model API passes to StockMovement.objects.create.
ApiQtys == 1..(MaxQty + 1)

\* Inputs of a status evaluation.
Dates == 0..MaxDate
Todays == {0, 1}
StatusQtys == (0 - 1)..(FallbackMin + 1)
EvalBatches == {None} \cup {Some([expiration_date |-> d]) : d \in Dates}
EvalThresholds ==
    {None} \cup {Some([alert_enabled |-> a, min_quantity |-> m]) :
                    a \in BOOLEAN, m \in {0, FallbackMin + 1}}

\* Two request handlers (worker threads or processes) serve the add view.  A
\* handler is idle, holds a validated form (with the quantity its check read
\* and the length of the log at that moment), or has saved it.
Handlers == {1, 2}
Idle == [pc |-> "idle", data |-> None, available |-> 0, seen |-> 0]

\* Inputs of a consumption estimate: the StockItem's quantity and its movement
\* rows as [movement_type, quantity, age], age being the whole days between
\* the row's date and now.
UsageQtys == 0..MaxQty
UsageAges == {WindowDays, WindowDays + 1}
UsageRow ==
    [movement_type : StockMovementType, quantity : 1..MaxQty, age : UsageAges]
UsageLogs == {<<>>} \cup {<<r>> : r \in UsageRow}
                    \cup {<<r1, r2>> : r1 \in UsageRow, r2 \in UsageRow}
NoUsage == [item |-> None, average |-> 0, estimate |-> None]

\* ------------------------------------------------------------------ actions
\* The post_save signal of SupplyBatch, delivered to create_stock_from_batch.
post_save(db, b, created) ==
    IF create_stock_from_batch(created)
    THEN [auto_add_to_stock(db, b) EXCEPT !.triggers = @ + 1]
    ELSE db

Commit(r) ==
    /\ batches' = r.batches
    /\ stock_items' = r.stock_items
    /\ movements' = r.movements

\* A SupplyBatch is created (admin add view, POST /batches/, the item+batch
\* serializer): Model.save inserts the row and sends post_save(created=True).
CreateBatch(q, active) ==
    /\ DOMAIN batches # Batches
    /\ LET b == Min(Batches \ DOMAIN batches)
           rows == [x \in DOMAIN batches \cup {b} |->
                      IF x = b
                      THEN [is_active |-> active, stock_entry_created |-> FALSE,
                            quantity |-> q]
                      ELSE batches[x]]
           r == post_save(Db(rows, stock_items, movements), b, TRUE)
       IN /\ Commit(r)
          /\ last' = Call("create_batch", Some(b), None, r.ret, r.triggers)
    /\ UNCHANGED <<locations, supply_item_active, evaluation, handlers, usage>>

\* POST /batches/ (SupplyBatchListCreateView) when a write of the triggered
\* auto_add_to_stock raises: the serializer's save has inserted the batch, the
\* receiver is called by post_save.send and lets the exception through, and
\* the view opens no transaction, so nothing written so far is undone.
CreateBatchInterrupted(q, active, point) ==
    /\ DOMAIN batches # Batches
    /\ LET b == Min(Batches \ DOMAIN batches)
           rows == [x \in DOMAIN batches \cup {b} |->
                      IF x = b
                      THEN [is_active |-> active, stock_entry_created |-> FALSE,
                            quantity |-> q]
                      ELSE batches[x]]
           db == Db(rows, stock_items, movements)
           r == auto_add_to_stock_raising(db, b, point)
       IN /\ create_stock_from_batch(TRUE)
          /\ ~auto_add_skips(db, b)
          /\ Commit(r)
          /\ last' = Call("create_batch", Some(b), None, r.ret, 1)
    /\ UNCHANGED <<locations, supply_item_active, evaluation, handlers, usage>>

\* The admin action "forcar entrada no estoque" on the selected batches, in
\* the order of the queryset.
ForceStockEntry(queryset) ==
    /\ \A k \in 1..Len(queryset) : queryset[k] \in DOMAIN batches
    /\ LET r == force_stock_entry(Db(batches, stock_items, movements), queryset,
                                  <<>>)
       IN /\ Commit(r.db)
          /\ last' = [op |-> "force_stock_entry", batch |-> None, item |-> None,
                      ret |-> r.ret, triggers |-> r.db.triggers, error |-> "",
                      selected |-> {queryset[k] : k \in 1..Len(queryset)},
                      returns |-> r.returns, count |-> r.count]
    /\ UNCHANGED <<locations, supply_item_active, evaluation, handlers, usage>>

\* An existing SupplyBatch is edited and saved (quantity, is_active):
\* post_save(created=False).
UpdateBatch(b, q, active) ==
    /\ b \in DOMAIN batches
    /\ LET rows == [batches EXCEPT ![b].quantity = q, ![b].is_active = active]
           r == post_save(Db(rows, stock_items, movements), b, FALSE)
       IN /\ Commit(r)
          /\ last' = Call("update_batch", Some(b), None, r.ret, r.triggers)
    /\ UNCHANGED <<locations, supply_item_active, evaluation, handlers, usage>>

\* StockOrchestrator.auto_add_to_stock(batch), called on a stored batch.
AutoAddToStock(b) ==
    /\ b \in DOMAIN batches
    /\ LET r == auto_add_to_stock(Db(batches, stock_items, movements), b)
       IN /\ Commit(r)
          /\ last' = Call("auto_add_to_stock", Some(b), None, r.ret, r.triggers)
    /\ UNCHANGED <<locations, supply_item_active, evaluation, handlers, usage>>

\* StockOrchestrator.force_entry(batch, location): the admin action passes no
\* location.
ForceEntry(b, location_arg) ==
    /\ b \in DOMAIN batches
    /\ LET r == force_entry(Db(batches, stock_items, movements), b, location_arg)
       IN /\ Commit(r)
          /\ last' = Call("force_entry", Some(b), None, r.ret, r.triggers)
    /\ UNCHANGED <<locations, supply_item_active, evaluation, handlers, usage>>

\* StockMovementAdmin add view: the form is validated, and a valid form's
\* instance is saved (save_model).
AddMovement(data) ==
    /\ data.stock_item \in DOMAIN stock_items
    /\ LET e == form_errors(stock_items, data, None)
       IN IF e # ""
          THEN /\ last' = Submitted("add_movement", data, "rejected", e)
               /\ UNCHANGED <<movements, stock_items>>
          ELSE /\ movements' = Append(movements,
                                  StockMovement_save(stock_items, data, NewInstancePk))
               /\ stock_items' = StockMovement_save_balance(stock_items, data)
               /\ last' = Submitted("add_movement", data, "accepted", "")
    /\ UNCHANGED <<batches, locations, supply_item_active, evaluation, handlers, usage>>

\* StockMovementAdmin change view on the k-th row: the form is bound to the
\* persisted instance, so the columns the data does not carry keep their
\* values.
ChangeMovement(k, data) ==
    /\ k \in 1..Len(movements)
    /\ data.stock_item \in DOMAIN stock_items
    /\ LET old == movements[k]
           e == form_errors(stock_items, data, Some(old))
           m == [data EXCEPT !.before_quantity = old.before_quantity,
                             !.after_quantity = old.after_quantity]
       IN IF e # ""
          THEN /\ last' = Submitted("change_movement", data, "rejected", e)
               /\ UNCHANGED <<movements, stock_items>>
          ELSE /\ movements' = [movements EXCEPT
                                  ![k] = StockMovement_save(stock_items, m, Some("row"))]
               /\ stock_items' = StockMovement_save_balance(stock_items, m)
               /\ last' = Submitted("change_movement", data, "accepted", "")
    /\ UNCHANGED <<batches, locations, supply_item_active, evaluation, handlers, usage>>

\* StockMovement.objects.create(**data) by a caller of the model API:
\* Model.save does not run clean, so the row is stored as given.
CreateMovement(data) ==
    /\ data.stock_item \in DOMAIN stock_items
    /\ movements' = StockMovement_create(stock_items, movements, data)
    /\ stock_items' = StockMovement_save_balance(stock_items, data)
    /\ last' = Submitted("create_movement", data, "accepted", "")
    /\ UNCHANGED <<batches, locations, supply_item_active, evaluation, handlers, usage>>

\* StockItemAdmin action "recalcular estoque": item.recalculate_stock().
Recalculate(i) ==
    /\ i \in DOMAIN stock_items
    /\ stock_items' = recalculate_stock(stock_items, movements, i)
    /\ last' = Call("recalculate_stock", None, Some(i), "none", 0)
    /\ UNCHANGED <<batches, locations, supply_item_active, movements, evaluation, handlers,
                   usage>>

\* A StockItem is deleted in the admin: its movements go with it
\* (on_delete=CASCADE).
DeleteStockItem(i) ==
    /\ i \in DOMAIN stock_items
    /\ stock_items' = [x \in DOMAIN stock_items \ {i} |-> stock_items[x]]
    /\ movements' = SelectSeq(movements, LAMBDA m : m.stock_item # i)
    /\ last' = Call("delete_stock_item", None, Some(i), "none", 0)
    /\ UNCHANGED <<batches, locations, supply_item_active, evaluation, handlers, usage>>

\* StockLocationAdmin: is_active is edited.
SetLocationActive(l, v) ==
    /\ locations[l] # v
    /\ locations' = [locations EXCEPT ![l] = v]
    /\ last' = Call("edit_location", None, None, "none", 0)
    /\ UNCHANGED <<batches, supply_item_active, stock_items, movements, evaluation, handlers,
                   usage>>

\* The supply item is deactivated (soft delete) or reactivated.
SetSupplyItemActive(v) ==
    /\ supply_item_active # v
    /\ supply_item_active' = v
    /\ last' = Call("edit_supply_item", None, None, "none", 0)
    /\ UNCHANGED <<batches, locations, stock_items, movements, evaluation, handlers,
                   usage>>

\* item.stock_status and item.is_low_stock are read (admin list, filters,
\* dashboards) on day `today`.
EvaluateStatus(item, today) ==
    /\ evaluation' = [item |-> Some(item), today |-> today,
                      status |-> stock_status(item, today),
                      low |-> is_low_stock(item)]
    /\ UNCHANGED <<batches, locations, supply_item_active, stock_items, movements,
                   last, handlers, usage>>

\* item.average_daily_usage and item.estimated_days_remaining are read (the
\* admin detail panel of a StockItem).
EvaluateUsage(item) ==
    /\ usage' = [item |-> Some(item), average |-> average_daily_usage(item),
                 estimate |-> estimated_days_remaining(item)]
    /\ UNCHANGED <<batches, locations, supply_item_active, stock_items, movements,
                   last, evaluation, handlers>>

\* The admin add view of StockMovement run by request handler h, in the two
\* steps another handler can fall between.  First step: the form is bound to
\* the POST data and validated; stock_item.quantity is read by a plain SELECT,
\* no lock is taken on the StockItem row.
ValidateMovement(h, data) ==
    /\ handlers[h].pc # "validated"
    /\ data.stock_item \in DOMAIN stock_items
    /\ LET e == form_errors(stock_items, data, None)
       IN IF e # ""
          THEN /\ handlers' = [handlers EXCEPT ![h] = Idle]
               /\ last' = Submitted("validate_movement", data, "rejected", e)
          ELSE /\ handlers' = [handlers EXCEPT ![h] =
                                  [pc |-> "validated", data |-> Some(data),
                                   available |-> stock_items[data.stock_item].quantity,
                                   seen |-> Len(movements)]]
               /\ last' = Submitted("validate_movement", data, "valid", "")
    /\ UNCHANGED <<batches, locations, supply_item_active, stock_items, movements,
                   evaluation, usage>>

\* Second step: save_model stores the instance of the valid form.
SaveMovement(h) ==
    /\ handlers[h].pc = "validated"
    /\ LET data == The(handlers[h].data)
       IN /\ movements' = Append(movements,
                                 StockMovement_save(stock_items, data, NewInstancePk))
          /\ stock_items' = StockMovement_save_balance(stock_items, data)
          /\ last' = Submitted("save_movement", data, "accepted", "")
    /\ handlers' = [handlers EXCEPT ![h].pc = "saved"]
    /\ UNCHANGED <<batches, locations, supply_item_active, evaluation, usage>>

\* A batch creation and a force_entry call served by two handlers, statement
\* by statement.  Each action is one database statement with the Python code
\* up to the next one; no statement of the orchestrator takes a lock and
\* nothing runs in a transaction.  unique_together (supply_batch, location)
\* makes the INSERT of a second StockItem for the pair fail with
\* IntegrityError, which nothing catches.
\*
\* The batch row is inserted by Model.save; post_save then calls
\* auto_add_to_stock in the same handler.
BatchInserted(h, q, active) ==
    /\ handlers[h].pc = "idle"
    /\ DOMAIN batches # Batches
    /\ LET b == Min(Batches \ DOMAIN batches)
       IN batches' = [x \in DOMAIN batches \cup {b} |->
                        IF x = b
                        THEN [is_active |-> active, stock_entry_created |-> FALSE,
                              quantity |-> q]
                        ELSE batches[x]]
    /\ handlers' = [handlers EXCEPT ![h].pc =
                       IF create_stock_from_batch(TRUE) THEN "auto_check"
                       ELSE "auto_false"]
    /\ UNCHANGED <<locations, supply_item_active, stock_items, movements, last,
                   evaluation, usage>>

\* auto_add_to_stock, its early returns: the tests on the batch, the default
\* location and the exists() query.
AutoAddCheck(h, b) ==
    /\ handlers[h].pc = "auto_check"
    /\ b \in DOMAIN batches
    /\ handlers' = [handlers EXCEPT ![h].pc =
                       IF auto_add_skips(Db(batches, stock_items, movements), b)
                       THEN "auto_false" ELSE "auto_create_item"]
    /\ UNCHANGED <<batches, locations, supply_item_active, stock_items, movements,
                   last, evaluation, usage>>

\* auto_add_to_stock: StockItem.objects.create at the default location.
AutoAddCreateItem(h, b) ==
    /\ handlers[h].pc = "auto_create_item"
    /\ b \in DOMAIN batches
    /\ first_active_location # None
    /\ LET loc == The(first_active_location)
       IN IF ItemsAt(stock_items, b, loc) # {}
          THEN /\ handlers' = [handlers EXCEPT ![h].pc = "auto_raised"]
               /\ UNCHANGED stock_items
          ELSE /\ handlers' = [handlers EXCEPT
                                  ![h].pc = "auto_create_movement",
                                  ![h].data = Some(NewItemId(stock_items))]
               /\ stock_items' = StockItem_create(stock_items, b, loc,
                                                  batches[b].quantity)
    /\ UNCHANGED <<batches, locations, supply_item_active, movements, last,
                   evaluation, usage>>

\* auto_add_to_stock: StockMovement.objects.create for the entry.
AutoAddCreateMovement(h, b) ==
    /\ handlers[h].pc = "auto_create_movement"
    /\ b \in DOMAIN batches
    /\ LET id == The(handlers[h].data)
       IN movements' = StockMovement_create(stock_items, movements,
                          Movement(id, INBOUND, batches[b].quantity, None, None,
                                   Some(stock_items[id].location), AUTO_NOTES))
    /\ handlers' = [handlers EXCEPT ![h].pc = "auto_mark"]
    /\ UNCHANGED <<batches, locations, supply_item_active, stock_items, last,
                   evaluation, usage>>

\* auto_add_to_stock: the flag is saved and True returned.
AutoAddMarkCreated(h, b) ==
    /\ handlers[h].pc = "auto_mark"
    /\ b \in DOMAIN batches
    /\ batches' = mark_entry_created(Db(batches, stock_items, movements), b).batches
    /\ handlers' = [handlers EXCEPT ![h].pc = "auto_true"]
    /\ UNCHANGED <<locations, supply_item_active, stock_items, movements, last,
                   evaluation, usage>>

\* force_entry(batch), its reads: the batch, the location and the
\* filter(...).first() lookup of the StockItem.
ForceEntryFind(h, b) ==
    /\ handlers[h].pc = "idle"
    /\ b \in DOMAIN batches
    /\ LET location == first_active_location
           found == ItemsAt(stock_items, b, The(location))
       IN handlers' = [handlers EXCEPT ![h] =
             IF ~batches[b].is_active \/ location = None
             THEN [Idle EXCEPT !.pc = "force_false"]
             ELSE IF found # {}
             THEN [Idle EXCEPT !.pc = "force_adjust", !.data = Some(Min(found)),
                               !.available = stock_items[Min(found)].quantity]
             ELSE [Idle EXCEPT !.pc = "force_create_item"]]
    /\ UNCHANGED <<batches, locations, supply_item_active, stock_items, movements,
                   last, evaluation, usage>>

\* force_entry, the branch of an existing StockItem: the quantity and the
\* adjustment are written when the quantity read differs from the batch's,
\* the flag is saved, True is returned.
ForceEntryAdjust(h, b) ==
    /\ handlers[h].pc = "force_adjust"
    /\ b \in DOMAIN batches
    /\ LET id == The(handlers[h].data)
           old_quantity == handlers[h].available
           new_quantity == batches[b].quantity
           diff == new_quantity - old_quantity
           loc == stock_items[id].location
           items1 == StockItem_set_quantity(stock_items, id, new_quantity)
           log1 == StockMovement_create(items1, movements,
                      Movement(id, ADJUSTMENT, Abs(diff), Some(INVENTORY_ERROR),
                               IF diff < 0 THEN Some(loc) ELSE None,
                               IF diff > 0 THEN Some(loc) ELSE None,
                               FORCE_NOTES))
           db == Db(batches, stock_items, movements)
           db1 == IF old_quantity # new_quantity
                  THEN [db EXCEPT !.stock_items = items1, !.movements = log1]
                  ELSE db
       IN Commit(mark_entry_created(db1, b))
    /\ handlers' = [handlers EXCEPT ![h].pc = "force_true"]
    /\ UNCHANGED <<locations, supply_item_active, last, evaluation, usage>>

\* force_entry, the branch without a StockItem: StockItem.objects.create, then
\* the movement is built from `diff`, which this branch never assigned.  The
\* call ends in IntegrityError when the row exists by now, and in
\* UnboundLocalError after the INSERT otherwise.
ForceEntryCreateItem(h, b) ==
    /\ handlers[h].pc = "force_create_item"
    /\ b \in DOMAIN batches
    /\ first_active_location # None
    /\ LET loc == The(first_active_location)
       IN IF ItemsAt(stock_items, b, loc) # {}
          THEN UNCHANGED stock_items
          ELSE stock_items' = StockItem_create(stock_items, b, loc,
                                               batches[b].quantity)
    /\ handlers' = [handlers EXCEPT ![h].pc = "force_raised"]
    /\ UNCHANGED <<batches, locations, supply_item_active, movements, last,
                   evaluation, usage>>

LocationArgs == {None} \cup {Some(l) : l \in Locs}

NoEvaluation == [item |-> None, today |-> 0, status |-> "", low |-> FALSE]

\* --------------------------------------------------------- specifications
\* The orchestrator and what feeds it: batches, locations, the supply item.
Init ==
    /\ batches = <<>>
    /\ locations \in [Locs -> BOOLEAN]
    /\ supply_item_active \in BOOLEAN
    /\ stock_items = <<>>
    /\ movements = <<>>
    /\ last = Call("init", None, None, "none", 0)
    /\ evaluation = NoEvaluation
    /\ handlers = [h \in Handlers |-> Idle]
    /\ usage = NoUsage

Next ==
    \/ \E q \in BatchQtys, a \in BOOLEAN :
          CreateBatch(q, a) /\ Len(movements') <= MaxEntries
    \/ \E b \in Batches, q \in BatchQtys, a \in BOOLEAN : UpdateBatch(b, q, a)
    \/ \E b \in Batches :
          AutoAddToStock(b) /\ Len(movements') <= MaxEntries
    \/ \E b \in Batches, l \in LocationArgs :
          ForceEntry(b, l) /\ Len(movements') <= MaxEntries
    \/ \E i \in ItemIds : DeleteStockItem(i)
    \/ \E l \in Locs, v \in BOOLEAN : SetLocationActive(l, v)
    \/ \E v \in BOOLEAN : SetSupplyItemActive(v)

Spec == Init /\ [][Next]_vars

\* The ledger of the batches held at the default location: what creates a
\* balance there, the admin form that records movements, and recalculate.
InitLedger ==
    /\ batches = <<>>
    /\ locations = [l \in Locs |-> TRUE]
    /\ supply_item_active = TRUE
    /\ stock_items = <<>>
    /\ movements = <<>>
    /\ last = Call("init", None, None, "none", 0)
    /\ evaluation = NoEvaluation
    /\ handlers = [h \in Handlers |-> Idle]
    /\ usage = NoUsage

NextLedger ==
    \/ \E q \in BatchQtys, a \in BOOLEAN : CreateBatch(q, a)
    \/ \E b \in Batches : AutoAddToStock(b)
    \/ \E b \in Batches :
          Len(movements) < MaxMovements /\ ForceEntry(b, None)
    \/ \E i \in ItemIds, t \in StockMovementType, q \in FormQtys, f \in BOOLEAN :
          /\ i \in DOMAIN stock_items
          /\ Len(movements) < MaxMovements
          /\ AddMovement(FormData(stock_items, i, t, q, f))
    \/ \E i \in ItemIds : Recalculate(i)

SpecLedger == InitLedger /\ [][NextLedger]_vars

\* The writers of movements on a stocked batch: the admin add and change
\* views and a direct call of the model API.
NextApi ==
    \/ \E q \in BatchQtys, a \in BOOLEAN : CreateBatch(q, a)
    \/ \E i \in ItemIds, t \in StockMovementType, q \in FormQtys, f \in BOOLEAN :
          /\ i \in DOMAIN stock_items
          /\ Len(movements) < MaxEntries
          /\ AddMovement(FormData(stock_items, i, t, q, f))
    \/ \E k \in 1..MaxEntries, i \in ItemIds, t \in StockMovementType,
          q \in FormQtys, f \in BOOLEAN :
          /\ i \in DOMAIN stock_items
          /\ ChangeMovement(k, FormData(stock_items, i, t, q, f))
    \/ \E i \in ItemIds, t \in StockMovementType, q \in ApiQtys :
          /\ i \in DOMAIN stock_items
          /\ Len(movements) < MaxEntries
          /\ CreateMovement(FormData(stock_items, i, t, q, TRUE))

SpecApi == InitLedger /\ [][NextApi]_vars

\* Every way of filling the movement form for a stored StockItem: each
\* optional field given or left blank on its own (a location given is the
\* item's own).
FormInputs ==
    {Movement(i, t, q, r,
              IF src THEN Some(stock_items[i].location) ELSE None,
              IF dst THEN Some(stock_items[i].location) ELSE None, n) :
        i \in DOMAIN stock_items, t \in StockMovementType, q \in FormQtys,
        r \in {None, Some(DAMAGE)}, src \in BOOLEAN, dst \in BOOLEAN,
        n \in {NO_NOTES, USER_NOTES}}

\* The movement form on its own: a stocked or force-entered batch, and the
\* admin add and change views with every way of filling the form.
NextForm ==
    \/ \E q \in BatchQtys, a \in BOOLEAN : CreateBatch(q, a)
    \/ \E b \in Batches : ForceEntry(b, None)
    \/ \E data \in FormInputs :
          /\ Len(movements) < MaxEntries
          /\ AddMovement(data)
    \/ \E k \in 1..MaxEntries, data \in FormInputs : ChangeMovement(k, data)

SpecForm == InitLedger /\ [][NextForm]_vars

\* The status of a StockItem instance, read on any day for any instance.
\* The bulk action of the batch admin over two batches.  The two batches were
\* created while no location was active or while they were inactive, so
\* neither has been stocked; the locations are active now.
BulkBatches == {1, 2}
Querysets == {<<1>>, <<2>>, <<1, 2>>, <<2, 1>>}

InitBulk ==
    /\ batches \in [BulkBatches -> [is_active : BOOLEAN,
                                     stock_entry_created : {FALSE},
                                     quantity : BatchQtys]]
    /\ locations = [l \in Locs |-> TRUE]
    /\ supply_item_active = TRUE
    /\ stock_items = <<>>
    /\ movements = <<>>
    /\ last = Call("init", None, None, "none", 0)
    /\ evaluation = NoEvaluation
    /\ handlers = [h \in Handlers |-> Idle]
    /\ usage = NoUsage

NextBulk ==
    \/ \E b \in BulkBatches, q \in BatchQtys, a \in BOOLEAN : UpdateBatch(b, q, a)
    \/ \E b \in BulkBatches :
          AutoAddToStock(b) /\ Len(movements') <= MaxMovements
    \/ \E queryset \in Querysets :
          ForceStockEntry(queryset) /\ Len(movements') <= MaxMovements

SpecBulk == InitBulk /\ [][NextBulk]_vars

\* Movements recorded and edited through the admin form while the balance of
\* their StockItem is recalculated in between.
NextEdit ==
    \/ \E q \in BatchQtys, a \in BOOLEAN : CreateBatch(q, a)
    \/ \E i \in ItemIds, t \in StockMovementType, q \in FormQtys, f \in BOOLEAN :
          /\ i \in DOMAIN stock_items
          /\ Len(movements) < MaxEntries
          /\ AddMovement(FormData(stock_items, i, t, q, f))
    \/ \E k \in 1..MaxEntries, i \in ItemIds, t \in StockMovementType,
          q \in FormQtys, f \in BOOLEAN :
          /\ i \in DOMAIN stock_items
          /\ ChangeMovement(k, FormData(stock_items, i, t, q, f))
    \/ \E i \in ItemIds : Recalculate(i)

SpecEdit == InitLedger /\ [][NextEdit]_vars

\* A batch creation and a force_entry call side by side.
NextConcurrent ==
    \/ \E h \in Handlers, q \in BatchQtys, a \in BOOLEAN : BatchInserted(h, q, a)
    \/ \E h \in Handlers, b \in Batches : AutoAddCheck(h, b)
    \/ \E h \in Handlers, b \in Batches : AutoAddCreateItem(h, b)
    \/ \E h \in Handlers, b \in Batches : AutoAddCreateMovement(h, b)
    \/ \E h \in Handlers, b \in Batches : AutoAddMarkCreated(h, b)
    \/ \E h \in Handlers, b \in Batches : ForceEntryFind(h, b)
    \/ \E h \in Handlers, b \in Batches : ForceEntryAdjust(h, b)
    \/ \E h \in Handlers, b \in Batches : ForceEntryCreateItem(h, b)

SpecConcurrent == Init /\ [][NextConcurrent]_vars

\* Batch creation with writes that can fail.
NextFault ==
    \/ \E q \in BatchQtys, a \in BOOLEAN :
          CreateBatch(q, a) /\ Len(movements') <= MaxEntries
    \/ \E q \in BatchQtys, a \in BOOLEAN, point \in FaultPoints :
          CreateBatchInterrupted(q, a, point) /\ Len(movements') <= MaxEntries
    \/ \E b \in Batches, q \in BatchQtys, a \in BOOLEAN : UpdateBatch(b, q, a)
    \/ \E b \in Batches :
          AutoAddToStock(b) /\ Len(movements') <= MaxEntries
    \/ \E i \in ItemIds : DeleteStockItem(i)
    \/ \E l \in Locs, v \in BOOLEAN : SetLocationActive(l, v)
    \/ \E v \in BOOLEAN : SetSupplyItemActive(v)

SpecFault == Init /\ [][NextFault]_vars

\* Two handlers serving the movement add view side by side.
NextRace ==
    \/ \E q \in BatchQtys, a \in BOOLEAN : CreateBatch(q, a)
    \/ \E h \in Handlers, i \in ItemIds, t \in StockMovementType, q \in FormQtys :
          /\ i \in DOMAIN stock_items
          /\ Len(movements) + Cardinality({x \in Handlers :
                                              handlers[x].pc = "validated"})
                < MaxMovements
          /\ ValidateMovement(h, FormData(stock_items, i, t, q, TRUE))
    \/ \E h \in Handlers : SaveMovement(h)

SpecRace == InitLedger /\ [][NextRace]_vars

\* Consumption estimates of a StockItem instance.
NextUsage ==
    \E q \in UsageQtys, rows \in UsageLogs :
        EvaluateUsage([quantity |-> q, movements |-> rows])

SpecUsage == InitLedger /\ [][NextUsage]_vars

NextStatus ==
    \E q \in StatusQtys, sb \in EvalBatches, th \in EvalThresholds, d \in Todays :
        EvaluateStatus([quantity |-> q, supply_batch |-> sb,
                        supply_item_threshold |-> th], d)

SpecStatus == InitLedger /\ [][NextStatus]_vars

\* ------------------------------------------------- properties of Spec
ItemsOfBatch(b) == {i \in DOMAIN stock_items : stock_items[i].supply_batch = b}

InboundRows(log) == SelectSeq(log, LAMBDA m : m.movement_type = INBOUND)

SomeLocationActive == \E l \in Locs : locations[l]

FirstActive == CHOOSE l \in Locs : locations[l] /\ \A x \in Locs : locations[x] => l <= x

\* C4: of two auto_add_to_stock calls in a row on the same batch (the call
\* the creation of the batch triggers counts as one), a call that answers
\* true adds exactly one StockItem and exactly one movement, an INBOUND one,
\* and the second call answers false and changes no StockItem, movement or
\* batch row.
AutoAddTwice ==
    [][\A b \in Batches :
          AutoAddToStock(b) =>
            /\ last'.ret = "true" =>
                 /\ Cardinality(DOMAIN stock_items') = Cardinality(DOMAIN stock_items) + 1
                 /\ Len(movements') = Len(movements) + 1
                 /\ Len(InboundRows(movements')) = Len(InboundRows(movements)) + 1
            /\ (last.op \in {"auto_add_to_stock", "create_batch"} /\ last.batch = Some(b)) =>
                 /\ last'.ret = "false"
                 /\ UNCHANGED <<batches, stock_items, movements>>]_vars

\* a second call has answered false on a batch that holds its one StockItem
\* and its one INBOUND movement
AutoAddTwiceWitness ==
    /\ last.op = "auto_add_to_stock"
    /\ last.ret = "false"
    /\ \E b \in DOMAIN batches :
          /\ last.batch = Some(b)
          /\ batches[b].stock_entry_created
          /\ Cardinality(ItemsOfBatch(b)) = 1
          /\ Len(movements) = 1
          /\ movements[1].movement_type = INBOUND
          /\ movements[1].stock_item \in ItemsOfBatch(b)

\* C7: right after the creation of an active batch of quantity q > 0, with an
\* active supply item and at least one active location, there is exactly one
\* StockItem of the batch, with quantity q at the first active location,
\* exactly one movement, INBOUND with quantity q, that location as
\* destination, before_quantity NULL or 0 and after_quantity q, and the
\* batch's stock_entry_created is true.
CreationStocksBatch ==
    \A b \in DOMAIN batches :
        ( /\ last.op = "create_batch"
          /\ last.batch = Some(b)
          /\ batches[b].is_active
          /\ batches[b].quantity > 0
          /\ supply_item_active
          /\ SomeLocationActive )
        => LET q == batches[b].quantity
           IN /\ Cardinality(ItemsOfBatch(b)) = 1
              /\ \A i \in ItemsOfBatch(b) :
                    /\ stock_items[i].quantity = q
                    /\ stock_items[i].location = FirstActive
              /\ Len(movements) = 1
              /\ movements[1].stock_item \in ItemsOfBatch(b)
              /\ movements[1].movement_type = INBOUND
              /\ movements[1].quantity = q
              /\ movements[1].destination_location = Some(FirstActive)
              /\ movements[1].before_quantity \in {None, Some(0)}
              /\ movements[1].after_quantity = Some(q)
              /\ batches[b].stock_entry_created

\* a batch has just been created and stocked at location 2, the first active
\* one
CreationStocksBatchWitness ==
    /\ last.op = "create_batch"
    /\ last.ret = "true"
    /\ ~locations[1]
    /\ locations[2]
    /\ \E i \in DOMAIN stock_items : stock_items[i].location = 2

\* The conditions C8 lists, read on the state a call starts in.  A batch row
\* always has a supply item (the foreign key is not nullable), so of "missing
\* or inactive" only "inactive" has states.
Blocked(b) ==
    \/ ~batches[b].is_active
    \/ batches[b].stock_entry_created
    \/ ~supply_item_active
    \/ batches[b].quantity <= 0
    \/ ~SomeLocationActive
    \/ \E i \in ItemsOfBatch(b) : stock_items[i].location = FirstActive

\* C8: an auto_add_to_stock call on a batch that is inactive, already
\* flagged, of an inactive supply item, of quantity <= 0, without any active
\* location, or with a StockItem at the first active location, answers false
\* (it does not raise) and leaves every StockItem, every movement and the
\* batch rows as they were; so does the call triggered by the creation of
\* such a batch, whose flag stays false.
AutoAddFrame ==
    [][ /\ \A b \in DOMAIN batches :
             (AutoAddToStock(b) /\ Blocked(b)) =>
                /\ last'.ret = "false"
                /\ UNCHANGED <<batches, stock_items, movements>>
        /\ \A q \in BatchQtys, a \in BOOLEAN :
             ( /\ CreateBatch(q, a)
               /\ (~a \/ q <= 0 \/ ~supply_item_active \/ ~SomeLocationActive) ) =>
                /\ last'.ret = "false"
                /\ UNCHANGED <<stock_items, movements>>
                /\ \A b \in DOMAIN batches' \ DOMAIN batches :
                      ~batches'[b].stock_entry_created ]_vars

\* a call has answered false for the one reason that a StockItem of the batch
\* already stands at the first active location
AutoAddFrameWitness ==
    /\ last.op = "auto_add_to_stock"
    /\ last.ret = "false"
    /\ supply_item_active
    /\ SomeLocationActive
    /\ \E b \in DOMAIN batches :
          /\ last.batch = Some(b)
          /\ batches[b].is_active
          /\ ~batches[b].stock_entry_created
          /\ batches[b].quantity > 0
          /\ \E i \in ItemsOfBatch(b) : stock_items[i].location = FirstActive

\* C9: the request that creates a batch triggers auto_add_to_stock exactly
\* once; a request that saves an existing batch (an edit, the orchestrator's
\* own save of stock_entry_created in auto_add_to_stock or force_entry)
\* triggers it zero times.
TriggeredOncePerCreation ==
    /\ last.op = "create_batch" => last.triggers = 1
    /\ last.op \in {"update_batch", "auto_add_to_stock", "force_entry"} =>
          last.triggers = 0

\* a creation whose triggered call stocked the batch and saved the flag: one
\* trigger, although the batch was saved twice
TriggeredOncePerCreationWitness ==
    /\ last.op = "create_batch"
    /\ last.ret = "true"
    /\ last.triggers = 1
    /\ \E b \in DOMAIN batches : last.batch = Some(b) /\ batches[b].stock_entry_created

\* C10: once stock_entry_created is true for a batch, no step sets it back to
\* false, and every auto_add_to_stock call for the batch answers false and
\* leaves StockItems and movements as they were, whatever set the flag and
\* whether or not the batch still has a StockItem.
FlagIsLatch ==
    [][\A b \in DOMAIN batches :
          batches[b].stock_entry_created =>
            /\ b \in DOMAIN batches'
            /\ batches'[b].stock_entry_created
            /\ AutoAddToStock(b) =>
                 /\ last'.ret = "false"
                 /\ UNCHANGED <<stock_items, movements>>]_vars

\* a call has answered false on a flagged batch whose StockItem was removed,
\* while every other condition would let it stock the batch
FlagIsLatchWitness ==
    /\ last.op = "auto_add_to_stock"
    /\ last.ret = "false"
    /\ supply_item_active
    /\ SomeLocationActive
    /\ \E b \in DOMAIN batches :
          /\ last.batch = Some(b)
          /\ batches[b].is_active
          /\ batches[b].stock_entry_created
          /\ batches[b].quantity > 0
          /\ ItemsOfBatch(b) = {}

\* The location force_entry works on: its argument, else the first active
\* location, else none.
Resolved(l) ==
    IF l # None THEN l
    ELSE IF SomeLocationActive THEN Some(FirstActive) ELSE None

ItemsOfBatchAt(b, loc) == {i \in ItemsOfBatch(b) : stock_items[i].location = loc}

\* C11: force_entry on an active batch whose StockItem at the resolved
\* location has another quantity than the batch sets the StockItem quantity
\* to the batch quantity and appends exactly one movement: ADJUSTMENT, with
\* quantity |batch quantity - old quantity|, reason inventory-error, only
\* source_location set when the delta is negative and only
\* destination_location set when it is positive.
ForceEntryAdjusts ==
    [][\A b \in DOMAIN batches, l \in LocationArgs :
          ( /\ ForceEntry(b, l)
            /\ batches[b].is_active
            /\ Resolved(l) # None )
          => \A i \in ItemsOfBatchAt(b, The(Resolved(l))) :
               stock_items[i].quantity # batches[b].quantity =>
                 LET loc == The(Resolved(l))
                     delta == batches[b].quantity - stock_items[i].quantity
                     m == movements'[Len(movements')]
                 IN /\ stock_items'[i].quantity = batches[b].quantity
                    /\ Len(movements') = Len(movements) + 1
                    /\ SubSeq(movements', 1, Len(movements)) = movements
                    /\ m.stock_item = i
                    /\ m.movement_type = ADJUSTMENT
                    /\ m.quantity = (IF delta < 0 THEN 0 - delta ELSE delta)
                    /\ m.quantity > 0
                    /\ m.adjustment_reason = Some(INVENTORY_ERROR)
                    /\ delta < 0 => /\ m.source_location = Some(loc)
                                    /\ m.destination_location = None
                    /\ delta > 0 => /\ m.destination_location = Some(loc)
                                    /\ m.source_location = None]_vars

\* force_entry has lowered a StockItem to the batch quantity and logged the
\* adjustment with the source location set
ForceEntryAdjustsWitness ==
    /\ last.op = "force_entry"
    /\ last.ret = "true"
    /\ movements # <<>>
    /\ LET m == movements[Len(movements)]
       IN /\ m.movement_type = ADJUSTMENT
          /\ m.source_location # None
          /\ m.destination_location = None
          /\ m.stock_item \in DOMAIN stock_items
          /\ \E b \in DOMAIN batches :
                stock_items[m.stock_item].quantity = batches[b].quantity

\* C12: force_entry on an active batch without a StockItem at the resolved
\* location creates one StockItem with the batch quantity, appends exactly
\* one ADJUSTMENT movement with reason admin-edit and the batch quantity,
\* sets stock_entry_created and answers true.
ForceEntryCreates ==
    [][\A b \in DOMAIN batches, l \in LocationArgs :
          ( /\ ForceEntry(b, l)
            /\ batches[b].is_active
            /\ Resolved(l) # None
            /\ ItemsOfBatchAt(b, The(Resolved(l))) = {} )
          => /\ last'.ret = "true"
             /\ batches'[b].stock_entry_created
             /\ \E i \in DOMAIN stock_items' \ DOMAIN stock_items :
                   /\ DOMAIN stock_items' = DOMAIN stock_items \cup {i}
                   /\ stock_items'[i].quantity = batches[b].quantity
                   /\ stock_items'[i].location = The(Resolved(l))
                   /\ Len(movements') = Len(movements) + 1
                   /\ movements'[Len(movements')].stock_item = i
                   /\ movements'[Len(movements')].movement_type = ADJUSTMENT
                   /\ movements'[Len(movements')].adjustment_reason = Some(ADMIN_EDIT)
                   /\ movements'[Len(movements')].quantity = batches[b].quantity]_vars

\* C13: force_entry on an active batch that has a StockItem at the resolved
\* location sets stock_entry_created and answers true; when the StockItem
\* quantity already equals the batch quantity it writes no movement and
\* leaves every StockItem as it was.
ForceEntryFlags ==
    [][\A b \in DOMAIN batches, l \in LocationArgs :
          ( /\ ForceEntry(b, l)
            /\ batches[b].is_active
            /\ Resolved(l) # None )
          => \A i \in ItemsOfBatchAt(b, The(Resolved(l))) :
               /\ last'.ret = "true"
               /\ batches'[b].stock_entry_created
               /\ stock_items[i].quantity = batches[b].quantity =>
                    UNCHANGED <<stock_items, movements>>]_vars

\* force_entry has flagged a batch whose StockItem already held the batch
\* quantity: the flag is set and the log is still empty
ForceEntryFlagsWitness ==
    /\ last.op = "force_entry"
    /\ last.ret = "true"
    /\ movements = <<>>
    /\ \E b \in DOMAIN batches :
          /\ last.batch = Some(b)
          /\ batches[b].stock_entry_created
          /\ \E i \in ItemsOfBatch(b) : stock_items[i].quantity = batches[b].quantity

\* C17: in every state there is at most one StockItem per (supply batch,
\* location) pair, after any sequence of auto_add_to_stock and force_entry
\* calls with any location argument.
OneItemPerBatchAndLocation ==
    \A b \in Batches, l \in Locs : Cardinality(ItemsOfBatchAt(b, l)) <= 1

\* force_entry has just been called with a location where the batch already
\* has its StockItem, and the batch has a StockItem at the other location too.
OneItemPerBatchAndLocationWitness ==
    /\ last.op = "force_entry"
    /\ last.ret = "true"
    /\ \E b \in DOMAIN batches :
          \A l \in Locs : Cardinality(ItemsOfBatchAt(b, l)) = 1

\* C25: after any sequence of auto_add_to_stock and force_entry calls, with
\* no manual edit of an item or a movement, every StockItem's quantity is the
\* sum of its inbound-type movement quantities minus the sum of its
\* outbound-type movement quantities, so that recalculate would leave it as
\* it is.
OrchestrationKeepsLedger ==
    \A i \in DOMAIN stock_items :
        /\ stock_items[i].quantity =
              SumQty(SelectSeq(MovementsOf(movements, i), is_inbound))
              - SumQty(SelectSeq(MovementsOf(movements, i), is_outbound))
        /\ recalculate_stock(stock_items, movements, i) = stock_items

\* ----------------------------------------------- properties of SpecEdit
\* C26: the snapshot columns of a movement are written once: a movement that
\* is created carries its StockItem's quantity as before_quantity, and a saved
\* edit of a stored movement changes neither its before_quantity nor its
\* after_quantity, whatever the StockItem holds at the time of the edit.
SnapshotWrittenOnce ==
    [][ /\ Len(movements') = Len(movements) + 1 =>
              LET m == movements'[Len(movements')]
              IN m.before_quantity = Some(stock_items'[m.stock_item].quantity)
        /\ (last'.op = "change_movement" /\ last'.ret = "accepted") =>
              \A k \in 1..Len(movements) :
                  /\ movements'[k].before_quantity = movements[k].before_quantity
                  /\ movements'[k].after_quantity = movements[k].after_quantity
      ]_vars

\* C28: force_entry is idempotent on an unchanged batch: when a call on a
\* batch and a location has answered true, the same call made right after it
\* answers true, writes no movement and finds the StockItem holding the
\* batch's quantity.
ForceEntryIdempotent ==
    [][ \A b \in DOMAIN batches, l \in LocationArgs :
          LET first == force_entry(Db(batches, stock_items, movements), b, l)
              second == force_entry(Db(batches', stock_items', movements'), b, l)
          IN ( /\ last'.op = "force_entry"
               /\ last'.batch = Some(b)
               /\ last'.ret = "true"
               /\ first.ret = "true"
               /\ first.batches = batches'
               /\ first.stock_items = stock_items'
               /\ first.movements = movements' )
             => /\ second.ret = "true"
                /\ second.movements = movements'
                /\ second.stock_items = stock_items'
                /\ second.batches = batches'
                /\ \A i \in DOMAIN stock_items' :
                      ( /\ stock_items'[i].supply_batch = b
                        /\ Some(stock_items'[i].location) = Resolved(l) )
                      => stock_items'[i].quantity = batches'[b].quantity ]_vars

\* force_entry has just raised a StockItem's quantity to its batch's and
\* logged the adjustment with a destination.
ForceEntryIdempotentWitness ==
    /\ last.op = "force_entry"
    /\ last.ret = "true"
    /\ movements # <<>>
    /\ LET m == movements[Len(movements)]
       IN /\ m.movement_type = ADJUSTMENT
          /\ m.notes = FORCE_NOTES
          /\ m.destination_location # None
          /\ m.source_location = None
          /\ m.stock_item \in DOMAIN stock_items
          /\ stock_items[m.stock_item].supply_batch \in DOMAIN batches
          /\ stock_items[m.stock_item].quantity =
                batches[stock_items[m.stock_item].supply_batch].quantity
          /\ stock_items[m.stock_item].quantity > 0

\* C29: no orphan materialization: in every state reached through
\* auto_add_to_stock and force_entry, a call that fails part-way included,
\* every StockItem has at least one movement referencing it and its batch has
\* stock_entry_created set.
NoOrphanStockItem ==
    \A i \in DOMAIN stock_items :
        /\ MovementsOf(movements, i) # <<>>
        /\ batches[stock_items[i].supply_batch].stock_entry_created

\* ----------------------------------------- properties of SpecConcurrent
\* C30: when the auto_add_to_stock call of a batch's creation and a
\* force_entry call for the same batch and default location run in two
\* handlers, then once both have ended, whatever the interleaving, the batch
\* (active, of positive quantity, with an active supply item and location) has
\* exactly one StockItem at the location and exactly one movement, recording
\* its initial quantity, and neither call has ended in an unhandled error.
AutoEnded == {"auto_true", "auto_false", "auto_raised"}
ForceEnded == {"force_true", "force_false", "force_raised"}

ConcurrentMaterialization ==
    \A h1, h2 \in Handlers, b \in DOMAIN batches :
        ( /\ handlers[h1].pc \in AutoEnded
          /\ handlers[h2].pc \in ForceEnded
          /\ batches[b].is_active
          /\ batches[b].quantity > 0
          /\ supply_item_active
          /\ SomeLocationActive )
        => /\ handlers[h1].pc # "auto_raised"
           /\ handlers[h2].pc # "force_raised"
           /\ Cardinality(ItemsOfBatchAt(b, FirstActive)) = 1
           /\ \A i \in ItemsOfBatchAt(b, FirstActive) :
                 /\ Len(MovementsOf(movements, i)) = 1
                 /\ MovementsOf(movements, i)[1].quantity = batches[b].quantity

BulkProcessesEverySelected ==
    [][ last'.op = "force_stock_entry" =>
          /\ last'.ret = "reported"
          /\ DOMAIN last'.returns = last'.selected
          /\ \A b \in last'.selected : last'.returns[b] \in {"true", "false"}
          /\ last'.count =
                Cardinality({b \in last'.selected : last'.returns[b] = "true"}) ]_vars

\* ------------------------------------------- properties of SpecLedger
\* C1: every StockItem has quantity >= 0 in every state reached by batch
\* creations, auto_add_to_stock, force_entry, movements recorded through the
\* validating form, and recalculate.
NonNegativeQuantity ==
    \A i \in DOMAIN stock_items : stock_items[i].quantity >= 0

OfTypes(log, i, types) ==
    SelectSeq(log, LAMBDA m : m.stock_item = i /\ m.movement_type \in types)

\* C3: right after recalculate on a StockItem, its quantity is the sum of its
\* INBOUND and PRODUCTION_OUTPUT movement quantities minus the sum of its
\* OUTBOUND, PRODUCTION_INPUT and TRANSFER movement quantities.
RecalculateMatchesLedger ==
    last.op = "recalculate_stock" =>
        \A i \in last.item :
            stock_items[i].quantity =
                SumQty(OfTypes(movements, i, {INBOUND, PRODUCTION_OUTPUT}))
                - SumQty(OfTypes(movements, i, {OUTBOUND, PRODUCTION_INPUT, TRANSFER}))

\* A snapshot column as a number, NULL read as 0.
Snapshot(x) == IF x = None THEN 0 ELSE The(x)

\* C5: for every movement of the log, after_quantity - before_quantity is
\* +quantity for INBOUND and PRODUCTION_OUTPUT and -quantity for OUTBOUND,
\* PRODUCTION_INPUT and TRANSFER (a NULL snapshot read as 0).
SnapshotIntegrity ==
    \A k \in 1..Len(movements) :
        LET m == movements[k]
            delta == Snapshot(m.after_quantity) - Snapshot(m.before_quantity)
        IN /\ m.movement_type \in {INBOUND, PRODUCTION_OUTPUT} => delta = m.quantity
           /\ m.movement_type \in {OUTBOUND, PRODUCTION_INPUT, TRANSFER} =>
                 delta = 0 - m.quantity

\* C16: every row of the movement log has a quantity above zero, whichever
\* path wrote it: the validated admin form, auto_add_to_stock, force_entry.
PositiveMovementQuantity ==
    \A k \in 1..Len(movements) : movements[k].quantity > 0

\* The log holds a row of each writer: the automatic entry, a form
\* submission and a forced adjustment.
PositiveMovementQuantityWitness ==
    /\ \E k \in 1..Len(movements) : movements[k].notes = AUTO_NOTES
    /\ \E k \in 1..Len(movements) : movements[k].notes = USER_NOTES
    /\ \E k \in 1..Len(movements) :
          /\ movements[k].notes = FORCE_NOTES
          /\ movements[k].movement_type = ADJUSTMENT

ExcessOutboundRejected ==
    [][\A i \in DOMAIN stock_items, q \in FormQtys \cup ApiQtys, f \in BOOLEAN,
          t \in {OUTBOUND, PRODUCTION_INPUT, TRANSFER} :
          ( /\ q > stock_items[i].quantity
            /\ \/ AddMovement(FormData(stock_items, i, t, q, f))
               \/ CreateMovement(FormData(stock_items, i, t, q, f))
               \/ \E k \in 1..Len(movements) :
                     ChangeMovement(k, FormData(stock_items, i, t, q, f)) )
          => /\ last'.ret = "rejected"
             /\ UNCHANGED <<stock_items, movements>>]_vars

\* C27: recording a movement (StockMovement.save, on create or on edit)
\* leaves the quantity of its StockItem and of every other StockItem as it
\* was: the ledger does not apply the movement's quantity to the balance.
SaveLeavesBalances ==
    [][ ( /\ last'.op \in {"add_movement", "change_movement", "create_movement"}
          /\ last'.ret = "accepted" )
        => stock_items' = stock_items ]_vars

\* An outbound-class movement has been saved for the whole quantity of its
\* StockItem, and the item still holds that quantity.
SaveLeavesBalancesWitness ==
    /\ last.op \in {"add_movement", "change_movement", "create_movement"}
    /\ last.ret = "accepted"
    /\ \E k \in 1..Len(movements) :
          /\ is_outbound(movements[k])
          /\ movements[k].quantity > 0
          /\ movements[k].quantity = stock_items[movements[k].stock_item].quantity

\* ---------------------------------------------- properties of SpecForm
\* The fields whose rule, as C14 lists them, the data breaks.
Offending(data) ==
    {f \in {"quantity", "adjustment_reason", "source_location", "destination_location"} :
        \/ f = "quantity" /\ data.quantity <= 0
        \/ f = "quantity"
             /\ data.movement_type \in {OUTBOUND, PRODUCTION_INPUT, TRANSFER}
             /\ data.quantity > stock_items[data.stock_item].quantity
        \/ f = "adjustment_reason"
             /\ data.movement_type = ADJUSTMENT /\ data.adjustment_reason = None
        \/ f = "source_location"
             /\ data.movement_type \in {OUTBOUND, TRANSFER} /\ data.source_location = None
        \/ f = "destination_location"
             /\ data.movement_type \in {INBOUND, TRANSFER}
             /\ data.destination_location = None}

\* C14: in every state, a create request is accepted exactly when
\* quantity > 0, an ADJUSTMENT has its reason, an OUTBOUND or TRANSFER has its
\* source location, an INBOUND or TRANSFER has its destination location and
\* an outbound-class quantity is at most the StockItem quantity; a rejected
\* request carries the error on a field whose rule it breaks.
CreateAcceptedIff ==
    \A data \in FormInputs :
        LET e == form_errors(stock_items, data, None)
        IN /\ (e = "") <=> (Offending(data) = {})
           /\ e # "" => e \in Offending(data)

CriticalEdit(data, old) ==
    \/ data.quantity # old.quantity
    \/ data.movement_type # old.movement_type
    \/ data.stock_item # old.stock_item
    \/ data.source_location # old.source_location
    \/ data.destination_location # old.destination_location

\* The edit half of C15: an edit of a stored movement that changes a
\* critical field with empty notes is rejected, and an edit that changes none
\* is not rejected for its notes.
NotesOnCriticalEdit ==
    \A k \in 1..Len(movements), data \in FormInputs :
        LET e == form_errors(stock_items, data, Some(movements[k]))
        IN /\ (CriticalEdit(data, movements[k]) /\ data.notes = NO_NOTES) => e # ""
           /\ ~CriticalEdit(data, movements[k]) => e # "notes"

\* C15: an edit that changes quantity, movement_type, stock_item,
\* source_location or destination_location with empty notes is rejected and
\* the persisted row stays as it was; an edit that changes none of them, and
\* a create, are not rejected for empty notes.
NotesOnCriticalEditOnly ==
    [][ /\ NotesOnCriticalEdit
        /\ (last'.op = "change_movement" /\ last'.ret = "rejected") =>
              movements' = movements
        /\ \A data \in FormInputs :
              form_errors(stock_items, data, None) # "notes" ]_vars

\* ---------------------------------------------- properties of SpecRace
\* C19: two handlers that each submit an outbound-class movement on one
\* StockItem never both pass the sufficiency check on the same reading of the
\* item and both commit when the two quantities add up to more than the
\* quantity read: the read-validate-write sequence is serialized per item.
SerializedPerStockItem ==
    \A h1, h2 \in Handlers :
        ( /\ h1 # h2
          /\ handlers[h1].pc = "saved"
          /\ handlers[h2].pc = "saved"
          /\ handlers[h1].seen = handlers[h2].seen
          /\ is_outbound(The(handlers[h1].data))
          /\ is_outbound(The(handlers[h2].data))
          /\ The(handlers[h1].data).stock_item = The(handlers[h2].data).stock_item )
        => The(handlers[h1].data).quantity + The(handlers[h2].data).quantity
              <= handlers[h1].available

\* ---------------------------------------------- properties of SpecUsage
\* C21: estimated_days_remaining is the no-estimate value (NULL, not 0)
\* exactly when the StockItem has no outbound, production-input or transfer
\* movement in the trailing 30 days; when it has one, average_daily_usage is
\* above zero and an estimate is returned.
EstimateIffRecentOutbound ==
    usage.item # None =>
        LET it == The(usage.item)
            recent == \E k \in 1..Len(it.movements) :
                         /\ is_outbound(it.movements[k])
                         /\ it.movements[k].age <= WindowDays
        IN /\ (usage.estimate = None) <=> ~recent
           /\ recent => usage.average > 0

\* ------------------------------------------- properties of SpecStatus
\* C6: stock_status answers the first status that matches, in the order
\* expired (VENCIDO), expiring within 0..7 days (EXPIRANDO), quantity <= 0
\* (EM FALTA), low stock as is_low_stock answers it (EM ALERTA), else OK; an
\* expired batch with quantity 0 is VENCIDO and a batch that expires today is
\* EXPIRANDO.
StatusPrecedence ==
    evaluation.item # None =>
        LET it == The(evaluation.item)
            today == evaluation.today
            dated == it.supply_batch # None
            expires == The(it.supply_batch).expiration_date
            expired == dated /\ expires < today
            expiring == dated /\ expires - today \in 0..7
            out == it.quantity <= 0
            low == is_low_stock(it)
            status == evaluation.status
        IN /\ expired => status = "VENCIDO"
           /\ (~expired /\ expiring) => status = "EXPIRANDO"
           /\ (~expired /\ ~expiring /\ out) => status = "EM FALTA"
           /\ (~expired /\ ~expiring /\ ~out /\ low) => status = "EM ALERTA"
           /\ (~expired /\ ~expiring /\ ~out /\ ~low) => status = "OK"
           /\ (dated /\ expires = today) => status = "EXPIRANDO"
           /\ (expired /\ it.quantity = 0) => status = "VENCIDO"

\* the status of an item with quantity 0 whose batch expired the day before
\* has been read
StatusPrecedenceWitness ==
    /\ evaluation.item # None
    /\ The(evaluation.item).quantity = 0
    /\ The(evaluation.item).supply_batch # None
    /\ The(The(evaluation.item).supply_batch).expiration_date < evaluation.today
    /\ evaluation.status = "VENCIDO"

\* C20: the low-stock check compares the quantity with min_quantity of the
\* StockThreshold of the item's supply item when that row exists and has
\* alerting enabled, and with the fallback minimum only when it does not.
LowStockReadsThreshold ==
    evaluation.item # None =>
        LET it == The(evaluation.item)
            th == it.supply_item_threshold
        IN evaluation.low =
              IF th # None /\ The(th).alert_enabled
              THEN it.quantity < The(th).min_quantity
              ELSE it.quantity < FallbackMin

\* C22: reading the status of a StockItem changes no StockItem, movement,
\* batch or location and always answers one of the five labels; an item
\* without a supply batch (hence without an expiration date) is never
\* reported expired or expiring, and with no threshold either its label
\* follows from its quantity alone.
StatusLabels == {"VENCIDO", "EXPIRANDO", "EM FALTA", "EM ALERTA", "OK"}

StatusReadOnly ==
    [][ evaluation' # evaluation =>
          LET it == The(evaluation'.item)
              status == evaluation'.status
          IN /\ UNCHANGED <<batches, locations, supply_item_active, stock_items,
                            movements>>
             /\ status \in StatusLabels
             /\ it.supply_batch = None =>
                   /\ status \notin {"VENCIDO", "EXPIRANDO"}
                   /\ ~is_expired(it, evaluation'.today)
                   /\ ~is_expiring_soon(it, evaluation'.today)
                   /\ days_to_expire(it, evaluation'.today) = None
             /\ (it.supply_batch = None /\ it.supply_item_threshold = None) =>
                   status = IF it.quantity <= 0 THEN "EM FALTA"
                            ELSE IF it.quantity < FallbackMin THEN "EM ALERTA"
                            ELSE "OK" ]_vars

\* the status of an item with neither batch nor threshold has been read on
\* day 1, and it is "OK"
StatusReadOnlyWitness ==
    /\ evaluation.item # None
    /\ The(evaluation.item).supply_batch = None
    /\ The(evaluation.item).supply_item_threshold = None
    /\ evaluation.today = 1
    /\ evaluation.status = "OK"

====
